---- MODULE Spec2Model ----
(***************************************************************************)
(* Model of nannou-schotter (src/src/main.rs): a 12 x 22 grid of "stones"  *)
(* that walk from the origin to their grid slot while a seeded random      *)
(* stream jitters and rotates them, with a control panel and keyboard      *)
(* shortcuts changing the displacement factor, the rotation factor and     *)
(* the seed.                                                               *)
(*                                                                         *)
(* Numbers.  The program computes in f32.  Positions (x, y, final_x,       *)
(* final_y) are integers counting units of 2^-25 and the two factors       *)
(* (disp_adj, rot_adj) are integers counting units of 2^-27; every f32     *)
(* addition and subtraction is the exact integer sum rounded to a 24-bit   *)
(* significand, ties to even (RoundF32), which is what IEEE-754 single     *)
(* precision does for these magnitudes.  The jitter products               *)
(* (y / ROWS) * adj * draw are kept as terms naming their operands: f32    *)
(* multiplication and division are functions of their operands, and the    *)
(* draws of StdRng are a function of the seed and the position in the      *)
(* stream, so equal terms are equal numbers.                               *)
(***************************************************************************)
EXTENDS Integers, Sequences, FiniteSets, TLC

VARIABLES gravel, disp_adj, rot_adj, random_seed, last, ticks, inputs

vars == <<gravel, disp_adj, rot_adj, random_seed, last, ticks, inputs>>

-----------------------------------------------------------------------------
(* Program constants *)

COLS == 12
ROWS == 22

(* Bounds of the model *)

\* user inputs (key presses and panel interactions) in one run of Spec
MaxInputs == 1
\* the count of update passes over the current gravel saturates here
TickCap == 43
\* Up / Right presses above the initial factor in SpecKeys
MaxUp == 2

-----------------------------------------------------------------------------
(* f32 arithmetic on scaled integers *)

Unit == 2^25          \* 1.0 as a position
AdjUnit == 2^27       \* 1.0 as a factor
Mantissa == 2^24      \* integers below this magnitude are exact in f32

Abs(n) == IF n < 0 THEN -n ELSE n

RECURSIVE Ulp(_)
\* spacing of the f32 values around magnitude m (in the units m counts)
Ulp(m) == IF m < Mantissa THEN 1 ELSE 2 * Ulp(m \div 2)

\* round the exact integer n to the nearest value with a 24-bit significand,
\* ties to even
RoundF32(n) ==
    LET m  == Abs(n)
        u  == Ulp(m)
        r  == m % u
        lo == m - r
        up == IF 2 * r < u THEN lo
              ELSE IF 2 * r > u THEN lo + u
              ELSE IF (lo \div u) % 2 = 0 THEN lo ELSE lo + u
    IN  IF n < 0 THEN -up ELSE up

F32Add(a, b) == RoundF32(a + b)
F32Sub(a, b) == RoundF32(a - b)

\* the f32 nearest to the rational n / d (n, d > 0), in the units of n
F32Quot(n, d) ==
    LET fl   == n \div d
        u    == Ulp(fl)
        lo   == fl - (fl % u)
        rem2 == 2 * (n - lo * d)
    IN  IF rem2 < u * d THEN lo
        ELSE IF rem2 > u * d THEN lo + u
        ELSE IF (lo \div u) % 2 = 0 THEN lo ELSE lo + u

\* 0.5 * (COLS as f32 / ROWS as f32): halving is exact
XStep == F32Quot(COLS * Unit, ROWS) \div 2
\* 0.5
YStep == Unit \div 2
\* the literal 0.1 as f32
Tenth == F32Quot(AdjUnit, 10)

-----------------------------------------------------------------------------
(* The random stream *)

\* seeds the model draws from; random_range keeps those in its range
SeedSamples == {0, 999999, 1000000}

\* random_range(lo, hi): any value of [lo, hi)
RandomRange(lo, hi) == {s \in SeedSamples : lo <= s /\ s < hi}

\* a generator that ignores the stored seed
SeedFromU64_Fixed(seed) == [seed |-> 0, pos |-> 0]

\* StdRng::seed_from_u64(seed): the stream of that seed, at its start
SeedFromU64(seed) == [seed |-> seed, pos |-> 0]

NoDraw == [seed |-> 0, pos |-> 0, range |-> "none"]

\* rng.gen_range(range): the next value of the stream, mapped into the range,
\* and the generator advanced by one draw
GenRange(rng, range) ==
    [value |-> [seed |-> rng.seed, pos |-> rng.pos, range |-> range],
     rng   |-> [rng EXCEPT !.pos = @ + 1]]

-----------------------------------------------------------------------------
(* Stones *)

\* the f32 literal 0.0 stored in an offset field
ZeroTerm == [op |-> "lit", num |-> 0, den |-> 1, adj |-> 0, draw |-> NoDraw]

\* ((num / den) * adj) * draw, evaluated in f32
Product(num, den, adj, draw) ==
    [op |-> "mul", num |-> num, den |-> den, adj |-> adj, draw |-> draw]

\* a stone created at its target
StoneNew_AtTarget(final_x, final_y) ==
    [x |-> final_x, y |-> final_y, x_offset |-> ZeroTerm, y_offset |-> ZeroTerm,
     final_x |-> final_x, final_y |-> final_y, final_rot |-> ZeroTerm]

\* Stone::new(final_x, final_y)
StoneNew(final_x, final_y) ==
    [x |-> 0, y |-> 0, x_offset |-> ZeroTerm, y_offset |-> ZeroTerm,
     final_x |-> final_x, final_y |-> final_y, final_rot |-> ZeroTerm]

\* the loops nested the other way round: x outside, y inside
PushAll_ColumnMajor(rows, cols) ==
    [i \in 1..(rows * cols) |->
        StoneNew(((i - 1) \div rows) * Unit, ((i - 1) % rows) * Unit)]

\* the stones two nested loops push, y over 0..rows outside and x over
\* 0..cols inside: push number i (from 1) has x = (i-1) % cols and
\* y = (i-1) / cols
PushAll(rows, cols) ==
    [i \in 1..(rows * cols) |->
        StoneNew(((i - 1) % cols) * Unit, ((i - 1) \div cols) * Unit)]

\* the gravel setup builds
SetupGravel == PushAll(ROWS, COLS)

\* the gravel the Randomize button builds
RandomizeGravel == PushAll(ROWS, COLS)

-----------------------------------------------------------------------------
(* update: the animation pass *)

\* the factor taken from the target row
FactorNum_Target(stone) == stone.final_y

\* let factor = stone.y / ROWS as f32: the numerator of the quotient
FactorNum(stone) == stone.y

\* the comparison off by one: cur <= final
Advance_Le(cur, final, step) == IF cur <= final THEN F32Add(cur, step) ELSE cur

\* if cur < final { cur += step }
Advance(cur, final, step) == IF cur < final THEN F32Add(cur, step) ELSE cur

\* the y-jitter drawn before the x-jitter
StoneDraws_YFirst(rng) ==
    LET d1 == GenRange(rng, "half")
        d2 == GenRange(d1.rng, "half")
        d3 == GenRange(d2.rng, "quarter_pi")
    IN  [x |-> d2.value, y |-> d1.value, rot |-> d3.value, rng |-> d3.rng]

\* the three draws the loop body takes for one stone, in the order the
\* code takes them, and the generator after them
StoneDraws(rng) ==
    LET d1 == GenRange(rng, "half")
        d2 == GenRange(d1.rng, "half")
        d3 == GenRange(d2.rng, "quarter_pi")
    IN  [x |-> d1.value, y |-> d2.value, rot |-> d3.value, rng |-> d3.rng]

\* the body of the loop over the stones, for one stone, given its draws
UpdateStone(stone, d, disp, rot) ==
    [stone EXCEPT
       !.x_offset  = Product(FactorNum(stone), ROWS, disp, d.x),
       !.y_offset  = Product(FactorNum(stone), ROWS, disp, d.y),
       !.final_rot = Product(FactorNum(stone), ROWS, rot, d.rot),
       !.x = Advance(stone.x, stone.final_x, XStep),
       !.y = Advance(stone.y, stone.final_y, YStep)]

RECURSIVE DrawRange(_, _, _)
\* the draws of the loop for the stones at places lo..hi, taken in the
\* loop's order with the generator handed from each stone to the next (the
\* draws do not depend on the stones; the range is halved to keep the
\* evaluation shallow, the left half first)
DrawRange(lo, hi, rng) ==
    IF lo > hi THEN [draws |-> <<>>, rng |-> rng]
    ELSE IF lo = hi
    THEN LET d == StoneDraws(rng) IN [draws |-> <<d>>, rng |-> d.rng]
    ELSE LET left  == DrawRange(lo, (lo + hi) \div 2, rng)
             right == DrawRange(((lo + hi) \div 2) + 1, hi, left.rng)
         IN  [draws |-> left.draws \o right.draws, rng |-> right.rng]

\* for stone in &mut model.gravel { ... }
UpdateLoop(stones, rng, disp, rot) ==
    LET d == DrawRange(1, Len(stones), rng)
    IN  [gravel |-> [i \in 1..Len(stones) |->
                       UpdateStone(stones[i], d.draws[i], disp, rot)],
         rng |-> d.rng]

-----------------------------------------------------------------------------
(* update: the control panel.  A frame carries at most one interaction     *)
(* with the panel: ui.kind names the widget and ui.v the value it gives.   *)

\* the values a slider over 0.0..=5.0 is dragged to: its two ends
SliderValues == {0, 5 * AdjUnit}

\* the values typed into the seed field: DragValue takes any u64
SeedEdits == {1000000}

NoUi == [kind |-> "none", v |-> 0]

PanelInputs ==
    [kind : {"SliderDisp", "SliderRot"}, v : SliderValues]
    \cup [kind : {"Randomize"}, v : RandomRange(0, 1000000)]
    \cup [kind : {"SeedEdit"}, v : SeedEdits]

\* Slider::new(&mut model.disp_adj, 0.0..=5.0)
PanelDisp(ui) == IF ui.kind = "SliderDisp" THEN ui.v ELSE disp_adj

\* Slider::new(&mut model.rot_adj, 0.0..=5.0)
PanelRot(ui) == IF ui.kind = "SliderRot" THEN ui.v ELSE rot_adj

\* the Randomize button draws a seed; the DragValue edits it
PanelSeed(ui) == IF ui.kind \in {"Randomize", "SeedEdit"} THEN ui.v ELSE random_seed

\* the Randomize button replaces the gravel
PanelGravel(ui) == IF ui.kind = "Randomize" THEN RandomizeGravel ELSE gravel

\* the generator created before the panel is processed
UpdateRngSeed_Stale(ui) == random_seed

\* the seed the tick's generator is created from: model.random_seed as the
\* panel left it
UpdateRngSeed(ui) == PanelSeed(ui)

Moved(before, after) ==
    \E k \in 1..Len(before) : after[k].x # before[k].x \/ after[k].y # before[k].y

Bump(n) == IF n < TickCap THEN n + 1 ELSE n

\* fn update
Update(ui) ==
    LET before == PanelGravel(ui)
        r == UpdateLoop(before, SeedFromU64(UpdateRngSeed(ui)),
                        PanelDisp(ui), PanelRot(ui))
    IN  /\ disp_adj' = PanelDisp(ui)
        /\ rot_adj' = PanelRot(ui)
        /\ random_seed' = PanelSeed(ui)
        /\ gravel' = r.gravel
        /\ ticks' = IF ui.kind = "Randomize" THEN 1 ELSE Bump(ticks)
        /\ last' = [op |-> "update", arg |-> ui.kind,
                    moved |-> Moved(before, r.gravel), draws |-> r.rng.pos]

-----------------------------------------------------------------------------
(* key_pressed *)

Keys == {"R", "S", "Up", "Down", "Right", "Left", "Other"}

\* R doing what the Randomize button does
KeyR_Reset(s) ==
    /\ random_seed' = s
    /\ gravel' = RandomizeGravel
    /\ ticks' = 0
    /\ UNCHANGED <<disp_adj, rot_adj>>

\* Key::R
KeyR(s) ==
    /\ random_seed' = s
    /\ UNCHANGED <<gravel, disp_adj, rot_adj, ticks>>

\* Key::S: capture_frame writes a file and leaves the model alone
KeyS == UNCHANGED <<gravel, disp_adj, rot_adj, random_seed, ticks>>

\* Key::Up / Key::Right
Increase(adj) == F32Add(adj, Tenth)

\* Key::Down / Key::Left
Decrease(adj) == IF adj > 0 THEN F32Sub(adj, Tenth) ELSE adj

\* fn key_pressed
KeyPressed(key) ==
    /\ CASE key = "R" -> \E s \in RandomRange(0, 1000000) : KeyR(s)
         [] key = "S" -> KeyS
         [] key = "Up" -> /\ disp_adj' = Increase(disp_adj)
                          /\ UNCHANGED <<gravel, rot_adj, random_seed, ticks>>
         [] key = "Down" -> /\ disp_adj' = Decrease(disp_adj)
                            /\ UNCHANGED <<gravel, rot_adj, random_seed, ticks>>
         [] key = "Right" -> /\ rot_adj' = Increase(rot_adj)
                             /\ UNCHANGED <<gravel, disp_adj, random_seed, ticks>>
         [] key = "Left" -> /\ rot_adj' = Decrease(rot_adj)
                            /\ UNCHANGED <<gravel, disp_adj, random_seed, ticks>>
         [] OTHER -> UNCHANGED <<gravel, disp_adj, rot_adj, random_seed, ticks>>
    /\ last' = [op |-> "key", arg |-> key, moved |-> FALSE, draws |-> 0]

-----------------------------------------------------------------------------
(* The program *)

\* fn setup
Init ==
    /\ gravel = SetupGravel
    /\ disp_adj = AdjUnit
    /\ rot_adj = AdjUnit
    /\ random_seed \in RandomRange(0, 1000000)
    /\ last = [op |-> "setup", arg |-> "none", moved |-> FALSE, draws |-> 0]
    /\ ticks = 0
    /\ inputs = 0

\* a frame without interaction
UpdateTick == Update(NoUi) /\ UNCHANGED inputs

\* a frame in which the user works the panel
UpdatePanel ==
    /\ inputs < MaxInputs
    /\ inputs' = inputs + 1
    /\ \E ui \in PanelInputs : Update(ui)

\* a key press between two frames
KeyInput ==
    /\ inputs < MaxInputs
    /\ inputs' = inputs + 1
    /\ \E key \in Keys : KeyPressed(key)

Next == UpdateTick \/ UpdatePanel \/ KeyInput

Spec == Init /\ [][Next]_vars

\* key presses alone, as many as the user likes; Up and Right stop MaxUp
\* steps above the initial factor
KeyRun ==
    /\ \E key \in Keys :
         /\ key = "Up" => disp_adj < AdjUnit + MaxUp * Tenth
         /\ key = "Right" => rot_adj < AdjUnit + MaxUp * Tenth
         /\ KeyPressed(key)
    /\ UNCHANGED inputs

NextKeys == KeyRun

SpecKeys == Init /\ [][NextKeys]_vars

-----------------------------------------------------------------------------
(* Properties *)

N == ROWS * COLS

Cells == 1..Len(gravel)

\* the seeds random_range(0, 1_000_000) can give
SeedRange == 0..999999

IsUpdate(l) == l.op = "update"

\* a stone that no update moves any more
Settled(stone) == stone.x >= stone.final_x /\ stone.y >= stone.final_y

AllSettled == \A k \in Cells : Settled(gravel[k])

\* the draw at position pos of the stream of the stored seed
DrawAt(pos, range) == [seed |-> random_seed, pos |-> pos, range |-> range]

\* C1: in every reachable state every cell has current_x <= grid_x and
\* current_y <= grid_y (the steps never carry a cell past its target).
C1_NoOvershoot ==
    \A k \in Cells :
        gravel[k].x <= gravel[k].final_x /\ gravel[k].y <= gravel[k].final_y

\* ticks after which every cell of the grid has arrived: the bottom row
\* needs (ROWS - 1) / 0.5 steps
ConvergenceTicks == 2 * (ROWS - 1)

\* C2: on an update tick without Randomize a cell's current_x strictly
\* increases while it is below grid_x and stays as it is from then on, and
\* likewise current_y; and after 2 * (ROWS - 1) ticks over a gravel every
\* cell has current_x >= grid_x and current_y >= grid_y.
C2_Convergence ==
    /\ [][(IsUpdate(last') /\ last'.arg # "Randomize") =>
            \A k \in Cells :
                /\ IF gravel[k].x < gravel[k].final_x
                   THEN gravel'[k].x > gravel[k].x
                   ELSE gravel'[k].x = gravel[k].x
                /\ IF gravel[k].y < gravel[k].final_y
                   THEN gravel'[k].y > gravel[k].y
                   ELSE gravel'[k].y = gravel[k].y]_vars
    /\ [](ticks >= ConvergenceTicks => AllSettled)

\* a tick ran over a gravel that had arrived, and moved nothing
C2_Witness ==
    /\ IsUpdate(last) /\ ~last.moved
    /\ ticks >= ConvergenceTicks
    /\ AllSettled

C4_NeverNegative ==
    [][/\ (last'.op = "key" /\ last'.arg = "Down" /\ disp_adj >= 0) => disp_adj' >= 0
       /\ (last'.op = "key" /\ last'.arg = "Left" /\ rot_adj >= 0) => rot_adj' >= 0]_vars

\* value number pos of the stream of a seed, mapped into a range
StreamDraw(seed, pos, range) == [seed |-> seed, pos |-> pos, range |-> range]

\* current_y of cell k when the tick's loop reaches it: 0 for the cells
\* Randomize has just created
YBefore(k, l) == IF l.arg = "Randomize" THEN 0 ELSE gravel[k].y

\* C5: the jitter and rotation an update tick gives a cell are a function
\* of the cell's place k in the gravel, its current_y at the start of the
\* tick, the stored factors and the stored seed, and of nothing else (no
\* generator state or jitter of earlier ticks, no other source of
\* randomness): two passes over the same grid with the same seed and
\* factors give every cell the same x_offset, y_offset and rotation.
C5_Deterministic ==
    [][IsUpdate(last') =>
        \A k \in 1..Len(gravel') :
            /\ gravel'[k].x_offset =
                 Product(YBefore(k, last'), ROWS, disp_adj',
                         StreamDraw(random_seed', 3 * (k - 1), "half"))
            /\ gravel'[k].y_offset =
                 Product(YBefore(k, last'), ROWS, disp_adj',
                         StreamDraw(random_seed', 3 * (k - 1) + 1, "half"))
            /\ gravel'[k].final_rot =
                 Product(YBefore(k, last'), ROWS, rot_adj',
                         StreamDraw(random_seed', 3 * (k - 1) + 2, "quarter_pi"))]_vars

\* a tick has given the last cell a jitter with a non-zero depth factor
C5_Witness ==
    /\ IsUpdate(last)
    /\ gravel[N].x_offset.op = "mul"
    /\ gravel[N].x_offset.num > 0
    /\ gravel[N].x_offset.draw.seed = random_seed

\* C6: a press of R leaves the gravel (every cell's position and target,
\* and the cell count), the displacement factor and the rotation factor as
\* they are, and stores a seed in [0, 1_000_000).
C6_KeyROnlySeed ==
    [][(last'.op = "key" /\ last'.arg = "R") =>
        /\ gravel' = gravel
        /\ disp_adj' = disp_adj
        /\ rot_adj' = rot_adj
        /\ random_seed' \in SeedRange]_vars

\* R was pressed while the last cell was on its way
C6_Witness ==
    /\ last.op = "key" /\ last.arg = "R"
    /\ gravel[N].y > 0
    /\ gravel[N].y < gravel[N].final_y

\* C7 as stated: after every update tick every cell's jitter and rotation
\* carry the depth factor grid_y / ROWS.
C7_FactorFromTarget ==
    IsUpdate(last) =>
        \A k \in Cells :
            /\ gravel[k].x_offset.num = gravel[k].final_y
            /\ gravel[k].y_offset.num = gravel[k].final_y
            /\ gravel[k].final_rot.num = gravel[k].final_y

\* C7 amended: on every update tick every cell's depth factor is
\* current_y / ROWS, current_y being the cell's animated row position at the
\* start of the tick (0 for the cells Randomize has just created):
\* x_offset and y_offset are (current_y / ROWS) * displacement_factor * draw
\* and rotation is (current_y / ROWS) * rotation_factor * draw.
C7_FactorFromCurrent ==
    [][IsUpdate(last') =>
        \A k \in 1..Len(gravel') :
            /\ gravel'[k].x_offset.op = "mul"
            /\ gravel'[k].x_offset.num = YBefore(k, last')
            /\ gravel'[k].x_offset.den = ROWS
            /\ gravel'[k].x_offset.adj = disp_adj'
            /\ gravel'[k].y_offset.op = "mul"
            /\ gravel'[k].y_offset.num = YBefore(k, last')
            /\ gravel'[k].y_offset.den = ROWS
            /\ gravel'[k].y_offset.adj = disp_adj'
            /\ gravel'[k].final_rot.op = "mul"
            /\ gravel'[k].final_rot.num = YBefore(k, last')
            /\ gravel'[k].final_rot.den = ROWS
            /\ gravel'[k].final_rot.adj = rot_adj']_vars

\* a tick has given a cell a depth factor that is neither 0 nor that of
\* its target row
C7_Witness ==
    /\ IsUpdate(last)
    /\ \E k \in Cells :
        /\ gravel[k].x_offset.num > 0
        /\ gravel[k].x_offset.num < gravel[k].final_y

\* C8: after every update tick, Randomize clicked in it or not, the cell
\* at place k of the row-major order (k from 0) has target
\* (k % COLS, k / COLS) and holds draw 3k of the stream of the stored seed
\* as x-jitter, draw 3k + 1 as y-jitter and draw 3k + 2 as rotation, and
\* the tick has taken 3 * ROWS * COLS draws.
C8_DrawOrder ==
    IsUpdate(last) =>
        /\ last.draws = 3 * ROWS * COLS
        /\ \A k \in Cells :
            /\ gravel[k].final_x = ((k - 1) % COLS) * Unit
            /\ gravel[k].final_y = ((k - 1) \div COLS) * Unit
            /\ gravel[k].x_offset.draw = DrawAt(3 * (k - 1), "half")
            /\ gravel[k].y_offset.draw = DrawAt(3 * (k - 1) + 1, "half")
            /\ gravel[k].final_rot.draw = DrawAt(3 * (k - 1) + 2, "quarter_pi")

\* the tick in which Randomize was clicked has taken its draws
C8_Witness ==
    /\ IsUpdate(last) /\ last.arg = "Randomize"
    /\ last.draws = 3 * N
    /\ gravel[N].final_rot.draw = DrawAt(3 * N - 1, "quarter_pi")

\* C9: the gravel always holds ROWS * COLS cells, the cell at index
\* y * COLS + x having target (x, y), and a key press leaves the gravel as
\* it is.
C9_GridShape ==
    /\ [](/\ Len(gravel) = ROWS * COLS
          /\ \A k \in Cells :
                /\ gravel[k].final_x = ((k - 1) % COLS) * Unit
                /\ gravel[k].final_y = ((k - 1) \div COLS) * Unit)
    /\ [][last'.op = "key" => gravel' = gravel]_vars

\* a gravel built by Randomize, with its last cell in the last column of
\* the last row
C9_Witness ==
    /\ IsUpdate(last) /\ last.arg = "Randomize"
    /\ Len(gravel) = N
    /\ gravel[N].final_x = (COLS - 1) * Unit
    /\ gravel[N].final_y = (ROWS - 1) * Unit

\* C10: when a tick has moved no cell (every cell has reached its fixed
\* point) and the next tick follows with the seed and the factors as that
\* tick left them, the next tick gives every cell the same x_offset,
\* y_offset and rotation.
C10_SteadyState ==
    [][(/\ IsUpdate(last) /\ ~last.moved
        /\ IsUpdate(last') /\ last'.arg = "none") =>
        \A k \in Cells :
            /\ gravel'[k].x_offset = gravel[k].x_offset
            /\ gravel'[k].y_offset = gravel[k].y_offset
            /\ gravel'[k].final_rot = gravel[k].final_rot]_vars

\* two ticks have run over a gravel that had arrived: the jitter of the
\* last cell carries the depth factor of its target row
C10_Witness ==
    /\ IsUpdate(last) /\ last.arg = "none" /\ ~last.moved
    /\ AllSettled
    /\ gravel[N].x_offset.num = gravel[N].final_y
    /\ ticks > ConvergenceTicks

\* before the cells have arrived two consecutive ticks with the same seed
\* and factors give a cell different jitter: the tick before this state
\* used a smaller depth factor than the next one will
C10_StillChanging ==
    /\ IsUpdate(last) /\ last.arg = "none"
    /\ gravel[N].x_offset.num > 0
    /\ gravel[N].x_offset.num < gravel[N].y

====
